---- MODULE Spec2Model ----
(***************************************************************************)
(* Model of oauth2client/crypt.py: creation (make_signed_jwt) and          *)
(* verification (verify_signed_jwt_with_certs) of RS256 signed JWTs.       *)
(*                                                                         *)
(* Strings are sequences of character codes (0..255), so that the base64   *)
(* and JSON conversions are computed character by character.  The source   *)
(* is Python 2 (`long`, str.rstrip('=') on the base64 output, bare         *)
(* `except:`); `(x := e)` is read as the assignment x = e.                 *)
(***************************************************************************)
EXTENDS Integers, Sequences, FiniteSets, TLC

CLOCK_SKEW_SECS == 300
MAX_TOKEN_LIFETIME_SECS == 86400

\* Character codes the code names literally.
DOT == 46        \* '.'  (jwt.split('.'), '.'.join(segments))
PAD == 61        \* '='  (rstrip('='), '=' * (4 - len % 4))

(***************************************************************************)
(* base64 (module base64 / binascii of Python 2.7), URL-safe alphabet.     *)
(***************************************************************************)

\* The character of a 6-bit value: A-Z a-z 0-9 - _
B64Char(v) ==
  IF v < 26 THEN 65 + v
  ELSE IF v < 52 THEN 97 + (v - 26)
  ELSE IF v < 62 THEN 48 + (v - 52)
  ELSE IF v = 62 THEN 45 ELSE 95

\* The 6-bit value of a character, -1 when it is not in the alphabet.
\* urlsafe_b64decode translates '-' and '_' to '+' and '/' and then uses the
\* standard table, so '+' (43) and '/' (47) are accepted too.
B64Val(c) ==
  IF c >= 65 /\ c <= 90 THEN c - 65
  ELSE IF c >= 97 /\ c <= 122 THEN c - 97 + 26
  ELSE IF c >= 48 /\ c <= 57 THEN c - 48 + 52
  ELSE IF c = 45 \/ c = 43 THEN 62
  ELSE IF c = 95 \/ c = 47 THEN 63
  ELSE -1

\* base64.urlsafe_b64encode: each group of three bytes gives four characters;
\* a last group of one or two bytes is filled up with '='.
urlsafe_b64encode(b) ==
  LET n == Len(b)
      Byte(i) == IF i <= n THEN b[i] ELSE 0
      Char(j) ==
        LET g == (j - 1) \div 4
            k == (j - 1) % 4
            b1 == Byte(3 * g + 1)
            b2 == Byte(3 * g + 2)
            b3 == Byte(3 * g + 3)
        IN  IF k = 0 THEN B64Char(b1 \div 4)
            ELSE IF k = 1 THEN B64Char((b1 % 4) * 16 + (b2 \div 16))
            ELSE IF k = 2 THEN (IF 3 * g + 2 > n THEN PAD
                                ELSE B64Char((b2 % 16) * 4 + (b3 \div 64)))
            ELSE (IF 3 * g + 3 > n THEN PAD ELSE B64Char(b3 % 64))
  IN  [j \in 1..(4 * ((n + 2) \div 3)) |-> Char(j)]

\* str.rstrip('=')
RECURSIVE RStripPad(_)
RStripPad(s) ==
  IF Len(s) > 0 /\ s[Len(s)] = PAD THEN RStripPad(SubSeq(s, 1, Len(s) - 1))
  ELSE s

_urlsafe_b64encode(raw_bytes) == RStripPad(urlsafe_b64encode(raw_bytes))

\* A character that carries six bits of data.
IsData(c) == c # PAD /\ B64Val(c) # -1

\* binascii_find_valid(s, slen, 1) called at the pad at position i: the next
\* valid base64 character (the pad counts as valid) after it, -1 if none.
FindValid(s, i) ==
  LET valid == {j \in (i + 1)..Len(s) : s[j] = PAD \/ IsData(s[j])}
  IN  IF valid = {} THEN -1
      ELSE s[CHOOSE j \in valid : \A h \in valid : j <= h]

\* binascii.a2b_base64: [leftbits, out].  Characters outside the alphabet are
\* skipped.  With quad_pos the number of data characters read so far modulo 4,
\* a pad read at quad_pos 3, or at quad_pos 2 with a pad as the next valid
\* character, ends the data and drops the bits left over; any other pad is
\* skipped.  Every 8 bits collected from the 6-bit values give a byte;
\* leftbits is the number of bits left at the end ('Incorrect padding' when
\* it is not 0).
a2b_base64(s) ==
  LET quad_pos(i) == Cardinality({j \in 1..(i - 1) : IsData(s[j])}) % 4
      ends == {i \in 1..Len(s) :
                 /\ s[i] = PAD
                 /\ \/ quad_pos(i) = 3
                    \/ quad_pos(i) = 2 /\ FindValid(s, i) = PAD}
      stop == IF ends = {} THEN Len(s) + 1
              ELSE CHOOSE i \in ends : \A h \in ends : i <= h
      data == SelectSeq(SubSeq(s, 1, stop - 1), IsData)
      Byte(k) ==
        LET a == (8 * (k - 1)) \div 6
            r == (8 * (k - 1)) % 6
        IN  ((B64Val(data[a + 1]) * 64 + B64Val(data[a + 2]))
               \div (2 ^ (4 - r))) % 256
  IN  [leftbits |-> IF ends = {} THEN (6 * Len(data)) % 8 ELSE 0,
       out |-> [k \in 1..((6 * Len(data)) \div 8) |-> Byte(k)]]

\* '=' * n
Pads(n) == [i \in 1..n |-> PAD]

\* _urlsafe_b64decode: [exc, bytes].  encode('ascii') raises on a character
\* above 127; base64 raises TypeError when bits are left over.
_urlsafe_b64decode(b64string) ==
  IF \E i \in 1..Len(b64string) : b64string[i] > 127
  THEN [exc |-> "UnicodeError", bytes |-> <<>>]
  ELSE LET padded == b64string \o Pads(4 - (Len(b64string) % 4))
           r == a2b_base64(padded)
       IN  IF r.leftbits # 0 THEN [exc |-> "TypeError", bytes |-> <<>>]
           ELSE [exc |-> "none", bytes |-> r.out]

(***************************************************************************)
(* JSON (simplejson.dumps / simplejson.loads).  A value is a record         *)
(* [t, n, s]: an integer n, a string s, a float (syntax only) or null.      *)
(* A dict is a function from key strings to values.  loads accepts objects  *)
(* of such values with optional white space; arrays, nested objects,        *)
(* true/false and string escapes are outside the payloads modelled and are  *)
(* reported as parse errors.                                                *)
(***************************************************************************)
JInt(n) == [t |-> "int", n |-> n, s |-> <<>>]
JStr(s) == [t |-> "str", n |-> 0, s |-> s]
JFloat == [t |-> "float", n |-> 0, s |-> <<>>]
None == [t |-> "null", n |-> 0, s |-> <<>>]
EmptyDict == [k \in {} |-> None]

\* The claim names the code reads.
K_iat == <<105, 97, 116>>      \* 'iat'
K_exp == <<101, 120, 112>>     \* 'exp'
K_aud == <<97, 117, 100>>      \* 'aud'

\* dict.get(key): None when the key is absent.
Get(d, k) == IF k \in DOMAIN d THEN d[k] ELSE None

RECURSIVE DecimalDigits(_)
DecimalDigits(n) ==
  IF n < 10 THEN <<48 + n>> ELSE DecimalDigits(n \div 10) \o <<48 + (n % 10)>>

\* EncodeValue with the quotes of a string left out.
EncodeValue_Unquoted(v) ==
  IF v.t = "int" THEN (IF v.n < 0 THEN <<45>> \o DecimalDigits(-v.n)
                       ELSE DecimalDigits(v.n))
  ELSE IF v.t = "str" THEN v.s
  ELSE <<110, 117, 108, 108>>

EncodeValue(v) ==
  IF v.t = "int" THEN (IF v.n < 0 THEN <<45>> \o DecimalDigits(-v.n)
                       ELSE DecimalDigits(v.n))
  ELSE IF v.t = "str" THEN <<34>> \o v.s \o <<34>>
  ELSE <<110, 117, 108, 108>>

\* The members of d among the keys ks, as "key":value joined by commas.
RECURSIVE EncodeMembers(_, _, _)
EncodeMembers(d, ks, first) ==
  IF ks = <<>> THEN <<>>
  ELSE IF Head(ks) \notin DOMAIN d THEN EncodeMembers(d, Tail(ks), first)
  ELSE (IF first THEN <<>> ELSE <<44>>)
       \o <<34>> \o Head(ks) \o <<34, 58>> \o EncodeValue(d[Head(ks)])
       \o EncodeMembers(d, Tail(ks), FALSE)

\* simplejson.dumps(data, separators=(',', ':')); the keys are written in the
\* order iat, exp, aud.
_json_encode(data) ==
  <<123>> \o EncodeMembers(data, <<K_iat, K_exp, K_aud>>, TRUE) \o <<125>>

\* {"typ":"JWT","alg":"RS256"}
HeaderJson ==
  <<123, 34, 116, 121, 112, 34, 58, 34, 74, 87, 84, 34, 44,
    34, 97, 108, 103, 34, 58, 34, 82, 83, 50, 53, 54, 34, 125>>

At(s, i) == IF i >= 1 /\ i <= Len(s) THEN s[i] ELSE -1
IsDigit(c) == c >= 48 /\ c <= 57
ParseFail == [ok |-> FALSE, v |-> None, pos |-> 0]

RECURSIVE SkipWs(_, _)
SkipWs(s, i) ==
  IF At(s, i) \in {32, 9, 10, 13} THEN SkipWs(s, i + 1) ELSE i

\* The index of the quote closing a string whose content starts at j, 0 when
\* there is none (or an escape, a control character or a non-ASCII byte first).
StrEnd(s, j) ==
  LET stops == {h \in j..Len(s) :
                  s[h] = 34 \/ s[h] < 32 \/ s[h] = 92 \/ s[h] > 127}
      first == CHOOSE h \in stops : \A g \in stops : h <= g
  IN  IF stops = {} THEN 0 ELSE IF s[first] = 34 THEN first ELSE 0

ParseString(s, i) ==
  LET e == StrEnd(s, i + 1)
  IN  IF At(s, i) # 34 \/ e = 0 THEN ParseFail
      ELSE [ok |-> TRUE, v |-> JStr(SubSeq(s, i + 1, e - 1)), pos |-> e + 1]

RECURSIVE DigitsEnd(_, _)
DigitsEnd(s, i) == IF IsDigit(At(s, i)) THEN DigitsEnd(s, i + 1) ELSE i

RECURSIVE DigitsVal(_)
DigitsVal(ds) ==
  IF ds = <<>> THEN 0
  ELSE 10 * DigitsVal(SubSeq(ds, 1, Len(ds) - 1)) + (ds[Len(ds)] - 48)

\* -?(0|[1-9]\d*)(\.\d+)?([eE][-+]?\d+)?
ParseNumber(s, i) ==
  LET st == IF At(s, i) = 45 THEN i + 1 ELSE i
      ie == IF At(s, st) = 48 THEN st + 1 ELSE DigitsEnd(s, st)
      fe == IF At(s, ie) = 46 /\ IsDigit(At(s, ie + 1))
            THEN DigitsEnd(s, ie + 1) ELSE ie
      xs == IF At(s, fe + 1) \in {43, 45} THEN fe + 2 ELSE fe + 1
      xe == IF At(s, fe) \in {101, 69} /\ IsDigit(At(s, xs))
            THEN DigitsEnd(s, xs) ELSE fe
      mag == DigitsVal(SubSeq(s, st, ie - 1))
  IN  IF ie = st THEN ParseFail
      ELSE IF xe > ie THEN [ok |-> TRUE, v |-> JFloat, pos |-> xe]
      ELSE [ok |-> TRUE, v |-> JInt(IF st > i THEN -mag ELSE mag), pos |-> ie]

ParseValue(s, i) ==
  IF At(s, i) = 34 THEN ParseString(s, i)
  ELSE IF At(s, i) = 45 \/ IsDigit(At(s, i)) THEN ParseNumber(s, i)
  ELSE IF SubSeq(s, i, i + 3) = <<110, 117, 108, 108>>
       THEN [ok |-> TRUE, v |-> None, pos |-> i + 4]
  ELSE ParseFail

\* "key" : value ( , "key" : value )* }   starting at i; a repeated key keeps
\* its last value.
RECURSIVE ParseMembers(_, _, _)
ParseMembers(s, i, d) ==
  LET key == ParseString(s, SkipWs(s, i))
      c == SkipWs(s, key.pos)
      val == ParseValue(s, SkipWs(s, c + 1))
      m == SkipWs(s, val.pos)
      d2 == (key.v.s :> val.v) @@ d
  IN  IF ~key.ok \/ At(s, c) # 58 \/ ~val.ok THEN ParseFail
      ELSE IF At(s, m) = 44 THEN ParseMembers(s, m + 1, d2)
      ELSE IF At(s, m) = 125 THEN [ok |-> TRUE, v |-> d2, pos |-> m + 1]
      ELSE ParseFail

\* simplejson.loads: [ok, v]; ok is FALSE where loads raises.
json_loads(s) ==
  LET i == SkipWs(s, 1)
      j == SkipWs(s, i + 1)
      r == IF At(s, i) # 123 THEN ParseFail
           ELSE IF At(s, j) = 125 THEN [ok |-> TRUE, v |-> EmptyDict, pos |-> j + 1]
           ELSE ParseMembers(s, i + 1, EmptyDict)
  IN  IF r.ok /\ SkipWs(s, r.pos) > Len(s) THEN [ok |-> TRUE, v |-> r.v]
      ELSE [ok |-> FALSE, v |-> EmptyDict]

(***************************************************************************)
(* Signer / Verifier.  A private key is a number k and its public key and   *)
(* certificate carry the same k.  A PEM text is [kind, key] with kind       *)
(* "cert" (X.509 certificate) or "pubkey" (bare RSA public key).  The       *)
(* RSA-SHA256 signature is four bytes: the key and a three-byte digest of   *)
(* the message, the sum of position times character, which changes whenever *)
(* one bit of the message changes.  Like the 256 bytes of an RSA-2048       *)
(* signature, four bytes leave one byte for the last base64 group.          *)
(***************************************************************************)
\* The sum of i * m[i] over lo..hi.
RECURSIVE WeightedSum(_, _, _)
WeightedSum(m, lo, hi) ==
  IF lo > hi THEN 0
  ELSE IF lo = hi THEN lo * m[lo]
  ELSE WeightedSum(m, lo, (lo + hi) \div 2)
       + WeightedSum(m, (lo + hi) \div 2 + 1, hi)

SHA256(message) ==
  LET sum == WeightedSum(message, 1, Len(message))
  IN  <<(sum \div 65536) % 256, (sum \div 256) % 256, sum % 256>>

\* Signer.sign(message)
Signer_sign(key, message) == <<key>> \o SHA256(message)

\* Verifier.verify(message, signature): True or, on any error, False.
Verifier_verify(pubkey, message, signature) ==
  signature = <<pubkey>> \o SHA256(message)

\* The backends chosen between when the module is loaded.
Backends == {"OpenSSLVerifier", "PyCryptoVerifier"}

\* Verifier.from_string(key_pem, is_x509_cert) of backend V: [exc, pubkey].
\* OpenSSL loads a certificate (or, in key mode, a private key) and raises
\* crypto.Error on any other text; PyCrypto supports no certificates.
Verifier_from_string(V, key_pem, is_x509_cert) ==
  IF V = "OpenSSLVerifier" THEN
    IF is_x509_cert THEN
      IF key_pem.kind = "cert" THEN [exc |-> "none", pubkey |-> key_pem.key]
      ELSE [exc |-> "crypto.Error", pubkey |-> 0]
    ELSE
      IF key_pem.kind = "privkey" THEN [exc |-> "none", pubkey |-> key_pem.key]
      ELSE [exc |-> "crypto.Error", pubkey |-> 0]
  ELSE
    IF is_x509_cert THEN [exc |-> "NotImplementedError", pubkey |-> 0]
    ELSE IF key_pem.kind \in {"pubkey", "privkey"}
         THEN [exc |-> "none", pubkey |-> key_pem.key]
    ELSE [exc |-> "ValueError", pubkey |-> 0]

(***************************************************************************)
(* make_signed_jwt                                                          *)
(***************************************************************************)
make_signed_jwt(signer, payload) ==
  LET segments == <<_urlsafe_b64encode(HeaderJson),
                    _urlsafe_b64encode(_json_encode(payload))>>
      signing_input == segments[1] \o <<DOT>> \o segments[2]
      signature == Signer_sign(signer, signing_input)
  IN  signing_input \o <<DOT>> \o _urlsafe_b64encode(signature)

(***************************************************************************)
(* verify_signed_jwt_with_certs.  The outcome is [exc, claims]: exc is      *)
(* "none" and claims the parsed payload when the call returns; otherwise    *)
(* exc is the message of the AppIdentityError raised, or the type of an     *)
(* exception of another class that leaves the call.                         *)
(***************************************************************************)
Raise(e) == [exc |-> e, claims |-> EmptyDict]
Return(parsed) == [exc |-> "none", claims |-> parsed]

\* str.split('.')
RECURSIVE Split(_)
Split(s) ==
  IF \A i \in 1..Len(s) : s[i] # DOT THEN <<s>>
  ELSE LET i == CHOOSE j \in 1..Len(s) :
                  s[j] = DOT /\ \A h \in 1..(j - 1) : s[h] # DOT
       IN  <<SubSeq(s, 1, i - 1)>> \o Split(SubSeq(s, i + 1, Len(s)))

\* CheckSignature with `verified` starting out True.
RECURSIVE CheckSignature_VerifiedAtStart(_, _, _, _)
CheckSignature_VerifiedAtStart(V, certs, signed, signature) ==
  IF certs = <<>> THEN "verified"
  ELSE LET verifier == Verifier_from_string(V, Head(certs), TRUE)
       IN  IF verifier.exc # "none" THEN verifier.exc
           ELSE IF Verifier_verify(verifier.pubkey, signed, signature)
                THEN "verified"
           ELSE CheckSignature_VerifiedAtStart(V, Tail(certs), signed, signature)

\* The loop over certs.items(), in the order given: "verified" at the first
\* entry whose verifier accepts, "unverified" when the entries are used up, or
\* the exception Verifier.from_string raises on the entry reached.
RECURSIVE CheckSignature(_, _, _, _)
CheckSignature(V, certs, signed, signature) ==
  IF certs = <<>> THEN "unverified"
  ELSE LET verifier == Verifier_from_string(V, Head(certs), TRUE)
       IN  IF verifier.exc # "none" THEN verifier.exc
           ELSE IF Verifier_verify(verifier.pubkey, signed, signature)
                THEN "verified"
           ELSE CheckSignature(V, Tail(certs), signed, signature)

\* ExpTooFar with > for >=.
ExpTooFar_Strict(exp, now) ==
  IF exp.t = "int" THEN exp.n > now + MAX_TOKEN_LIFETIME_SECS ELSE TRUE

\* ExpTooFar with the clock skew allowed on top of the lifetime.
ExpTooFar_PlusSkew(exp, now) ==
  IF exp.t = "int"
  THEN exp.n >= now + MAX_TOKEN_LIFETIME_SECS + CLOCK_SKEW_SECS ELSE TRUE

\* exp >= now + MAX_TOKEN_LIFETIME_SECS.  In Python 2 a string compares
\* greater than every number.
ExpTooFar(exp, now) ==
  IF exp.t = "int" THEN exp.n >= now + MAX_TOKEN_LIFETIME_SECS ELSE TRUE

\* TooEarly with <= for <.
TooEarly_Inclusive(now, iat) == now <= iat.n - CLOCK_SKEW_SECS

\* now < earliest, with earliest = iat - CLOCK_SKEW_SECS
TooEarly(now, iat) == now < iat.n - CLOCK_SKEW_SECS

\* now > latest, with latest = exp + CLOCK_SKEW_SECS
TooLate(now, exp) == now > exp.n + CLOCK_SKEW_SECS

\* CheckAudience without the comparison of aud with the audience.
CheckAudience_NoCompare(parsed, audience) ==
  IF audience = None THEN "none"
  ELSE IF Get(parsed, K_aud) = None THEN "No aud field in token"
  ELSE "none"

\* The audience check: the exception it raises, "none" when it passes.
CheckAudience(parsed, audience) ==
  IF audience = None THEN "none"
  ELSE IF Get(parsed, K_aud) = None THEN "No aud field in token"
  ELSE IF Get(parsed, K_aud) # audience THEN "Wrong recipient"
  ELSE "none"

\* Lines 345-375: the checks on the parsed claims.  iat - CLOCK_SKEW_SECS
\* raises TypeError when iat is not a number.  (A float is a number in the
\* code; the model gives it no value, and no payload signed here holds one.)
CheckClaims(parsed, now, audience) ==
  LET iat == Get(parsed, K_iat)
      exp == Get(parsed, K_exp)
  IN  IF iat = None THEN Raise("No iat field in token")
      ELSE IF iat.t # "int" THEN Raise("TypeError")
      ELSE IF exp = None THEN Raise("No exp field in token")
      ELSE IF ExpTooFar(exp, now) THEN Raise("exp field too far in future")
      ELSE IF TooEarly(now, iat) THEN Raise("Token used too early")
      ELSE IF TooLate(now, exp) THEN Raise("Token used too late")
      ELSE IF CheckAudience(parsed, audience) # "none"
           THEN Raise(CheckAudience(parsed, audience))
      ELSE Return(parsed)

verify_signed_jwt_with_certs(V, now, jwt, certs, audience) ==
  LET segments == Split(jwt)
      signed == segments[1] \o <<DOT>> \o segments[2]
      signature == _urlsafe_b64decode(segments[3])
      json_body == _urlsafe_b64decode(segments[2])
      parsed == json_loads(json_body.bytes)
      verified == CheckSignature(V, certs, signed, signature.bytes)
  IN  IF Len(segments) # 3 THEN Raise("Wrong number of segments in token")
      ELSE IF signature.exc # "none" THEN Raise(signature.exc)
      ELSE IF json_body.exc # "none" THEN Raise(json_body.exc)
      ELSE IF ~parsed.ok THEN Raise("Can't parse token")
      ELSE IF verified = "unverified" THEN Raise("Invalid token signature")
      ELSE IF verified # "verified" THEN Raise(verified)
      ELSE CheckClaims(parsed.v, now, audience)

(***************************************************************************)
(* The state machine: a backend is chosen when the module is loaded; a      *)
(* caller signs a payload, the token may be altered on its way, and a       *)
(* caller verifies it against a certificate set at some time of the clock.  *)
(***************************************************************************)
VARIABLES
  Verifier,   \* the backend bound to the name Verifier (lines 248-256)
  signer,     \* the private key of the Signer
  payload,    \* the payload given to make_signed_jwt
  certs,      \* the certificate set, in the order certs.items() yields it
  audience,   \* the audience given to verify, None for no check
  clock,      \* long(time.time()) at the time of the verify call
  jwt,        \* the token as the verifier receives it
  result,     \* the outcome of the verify call
  pc          \* "init", "signed", "altered", "done"

vars == <<Verifier, signer, payload, certs, audience, clock, jwt, result, pc>>

MaxCerts == 2

Keys == {1, 2}
Pems == {[kind |-> "cert", key |-> 1], [kind |-> "cert", key |-> 2],
         [kind |-> "pubkey", key |-> 1]}
CertSets == UNION {[1..n -> Pems] : n \in 0..MaxCerts}

SvcX == JStr(<<115, 118, 99, 45, 120>>)    \* "svc-x"
SvcY == JStr(<<115, 118, 99, 45, 121>>)    \* "svc-y"
Absent == [t |-> "absent", n |-> 0, s |-> <<>>]

\* The payload mapping with the given iat, exp and aud (Absent: no such key).
Payload(iat, exp, aud) ==
  LET m == (K_iat :> iat) @@ (K_exp :> exp) @@ (K_aud :> aud)
  IN  [k \in {h \in DOMAIN m : m[h] # Absent} |-> m[k]]

NoResult == Raise("not called")

InitOver(backends, signers, payloads, certsets, audiences, clocks) ==
  /\ Verifier \in backends
  /\ signer \in signers
  /\ payload \in payloads
  /\ certs \in certsets
  /\ audience \in audiences
  /\ clock \in clocks
  /\ jwt = <<>>
  /\ result = NoResult
  /\ pc = "init"

MakeSignedJwt ==
  /\ pc = "init"
  /\ jwt' = make_signed_jwt(signer, payload)
  /\ pc' = "signed"
  /\ UNCHANGED <<Verifier, signer, payload, certs, audience, clock, result>>

VerifySignedJwtWithCerts ==
  /\ pc \in {"signed", "altered"}
  /\ result' = verify_signed_jwt_with_certs(Verifier, clock, jwt, certs, audience)
  /\ pc' = "done"
  /\ UNCHANGED <<Verifier, signer, payload, certs, audience, clock, jwt>>

\* c with bit b inverted
Flip(c, b) == IF (c \div (2 ^ b)) % 2 = 1 THEN c - 2 ^ b ELSE c + 2 ^ b

\* The segment (1, 2, 3, ...) character i of token s lies in.
SegmentOf(s, i) == 1 + Cardinality({j \in 1..i : s[j] = DOT})

\* One bit of one character of the payload or signature segment is inverted.
FlipBit ==
  /\ pc = "signed"
  /\ \E i \in 1..Len(jwt), b \in 0..7 :
       /\ jwt[i] # DOT
       /\ SegmentOf(jwt, i) \in {2, 3}
       /\ jwt' = [jwt EXCEPT ![i] = Flip(jwt[i], b)]
  /\ pc' = "altered"
  /\ UNCHANGED <<Verifier, signer, payload, certs, audience, clock, result>>

\* The signature segment and its dot are cut off: two segments are left.
DropSegment ==
  /\ pc = "signed"
  /\ jwt' = Split(jwt)[1] \o <<DOT>> \o Split(jwt)[2]
  /\ pc' = "altered"
  /\ UNCHANGED <<Verifier, signer, payload, certs, audience, clock, result>>

\* Sign and verify, over payloads with iat, exp and aud absent, strings or
\* integers, every certificate set of up to MaxCerts entries, both backends.
Init ==
  InitOver(Backends, Keys,
           {Payload(i, e, a) :
              i \in {Absent, None, JStr(<<120>>), JInt(100000), JInt(100301)},
              e \in {Absent, JStr(<<120>>), JInt(100100), JInt(99699)},
              a \in {Absent, SvcX, SvcY}},
           CertSets, {None, SvcX, SvcY}, {100000})

Next == MakeSignedJwt \/ VerifySignedJwtWithCerts

Spec == Init /\ [][Next]_vars

\* Sign and verify around the time limits: iat and exp on both sides of
\* clock - 300, clock + 300 and clock + 86400, no audience requested.
InitTime ==
  InitOver(Backends, {1},
           {Payload(JInt(i), JInt(e), a) :
              i \in {10000, 100000, 100300, 100301},
              e \in {10100, 99699, 99700, 100100, 186399, 186400, 186401},
              a \in {Absent, SvcX}},
           {<<[kind |-> "cert", key |-> 1]>>,
            <<[kind |-> "pubkey", key |-> 1]>>,
            <<[kind |-> "cert", key |-> 2], [kind |-> "cert", key |-> 1]>>},
           {None}, {10000, 100000, 100300, 100301})

SpecTime == InitTime /\ [][Next]_vars

\* Sign, alter the token on its way, verify.
InitTamper ==
  InitOver(Backends, {1},
           {Payload(JInt(100000), JInt(100100), SvcX),
            Payload(JInt(100000), JInt(100100), Absent)},
           {<<[kind |-> "cert", key |-> 1]>>,
            <<[kind |-> "cert", key |-> 2], [kind |-> "cert", key |-> 1]>>},
           {None}, {100000})

NextTamper ==
  MakeSignedJwt \/ FlipBit \/ DropSegment \/ VerifySignedJwtWithCerts

SpecTamper == InitTamper /\ [][NextTamper]_vars

(***************************************************************************)
(* What the properties below speak about.                                   *)
(***************************************************************************)
Segments == Split(jwt)
SigningInput == Segments[1] \o <<DOT>> \o Segments[2]
SignatureBytes == _urlsafe_b64decode(Segments[3]).bytes

\* Three segments, both decodable, the payload valid JSON.
WellFormed ==
  /\ Len(Segments) = 3
  /\ _urlsafe_b64decode(Segments[3]).exc = "none"
  /\ _urlsafe_b64decode(Segments[2]).exc = "none"
  /\ json_loads(_urlsafe_b64decode(Segments[2]).bytes).ok

\* The certificate pem validates the token's signature over segment0.segment1.
Validates(pem) ==
  pem.kind = "cert" /\ Verifier_verify(pem.key, SigningInput, SignatureBytes)
SomeCertValidates == \E i \in 1..Len(certs) : Validates(certs[i])

\* The active backend constructs a Verifier from pem in certificate mode.
Constructible(pem) == Verifier_from_string(Verifier, pem, TRUE).exc = "none"

\* The signature check of the call passed.
SigVerified ==
  WellFormed /\ CheckSignature(Verifier, certs, SigningInput, SignatureBytes) = "verified"

\* The claims the token carries.
Claims ==
  IF WellFormed THEN json_loads(_urlsafe_b64decode(Segments[2]).bytes).v
  ELSE EmptyDict
Iat == Get(Claims, K_iat)
Exp == Get(Claims, K_exp)
Aud == Get(Claims, K_aud)
IsInt(v) == v.t = "int"

Accepted == result.exc = "none"

\* iat and exp are integers inside the time window and below the lifetime cap.
TimesPass ==
  /\ IsInt(Iat) /\ IsInt(Exp)
  /\ Exp.n < clock + 86400
  /\ Iat.n - 300 <= clock /\ clock <= Exp.n + 300

\* The certificate set in each of its orders.
Orders(cs) ==
  {[i \in 1..Len(cs) |-> cs[p[i]]] : p \in Permutations(1..Len(cs))}

\* The PEM text of the given kind for the signer's key.
SignerPem(kind) == [kind |-> kind, key |-> signer]

\* The token as it was signed, and whether verify accepts it as signed.
Original == make_signed_jwt(signer, payload)
OriginalValid ==
  verify_signed_jwt_with_certs(Verifier, clock, Original, certs, audience).exc
    = "none"

\* The token differs from the signed one in exactly one character, by one bit.
BitFlipped ==
  LET orig == Original
      diff == {i \in 1..Len(jwt) : jwt[i] # orig[i]}
  IN  /\ Len(jwt) = Len(orig)
      /\ Cardinality(diff) = 1
      /\ \E i \in diff, b \in 0..7 : jwt[i] = Flip(orig[i], b)

\* Only characters of the base64url alphabet A-Z a-z 0-9 - _
IsBase64Url(seg) ==
  \A i \in 1..Len(seg) : B64Val(seg[i]) # -1 /\ seg[i] \notin {43, 47}

\* A structurally malformed token: not three segments, a signature or payload
\* segment that is not base64url, or a payload that is not JSON.
Malformed ==
  \/ Len(Segments) # 3
  \/ /\ Len(Segments) = 3
     /\ \/ ~IsBase64Url(Segments[3])
        \/ ~IsBase64Url(Segments[2])
        \/ _urlsafe_b64decode(Segments[2]).exc # "none"
        \/ ~json_loads(_urlsafe_b64decode(Segments[2]).bytes).ok

MalformedTokenErrors ==
  {"Wrong number of segments in token", "Can't parse token"}
MissingClaimErrors ==
  {"No iat field in token", "No exp field in token", "No aud field in token"}
AppIdentityErrors ==
  MalformedTokenErrors \cup MissingClaimErrors \cup
  {"Invalid token signature", "exp field too far in future",
   "Token used too early", "Token used too late", "Wrong recipient"}

(***************************************************************************)
(* The claims.                                                              *)
(***************************************************************************)

C3_OrderIndependent ==
  pc = "done" =>
    \A cs \in Orders(certs) :
      verify_signed_jwt_with_certs(Verifier, clock, jwt, cs, audience) = result

\* C4 (as stated): with the signature verified, integer iat and exp, exp below
\* the lifetime cap and no audience, verify succeeds exactly when
\* iat - 300 <= now <= exp + 300, fails with 'Token used too early' when
\* now < iat - 300 and with 'Token used too late' when now > exp + 300.
C4_Original ==
  pc = "done" /\ SigVerified /\ IsInt(Iat) /\ IsInt(Exp)
    /\ Exp.n < clock + 86400 /\ audience = None
  => /\ (Accepted <=> (Iat.n - 300 <= clock /\ clock <= Exp.n + 300))
     /\ (clock < Iat.n - 300 => result.exc = "Token used too early")
     /\ (clock > Exp.n + 300 => result.exc = "Token used too late")

\* C4 (amended): as C4, with 'Token used too late' when now > exp + 300 and
\* now >= iat - 300 (a token both too early and too late is reported too
\* early).
C4_TimeWindow ==
  pc = "done" /\ SigVerified /\ IsInt(Iat) /\ IsInt(Exp)
    /\ Exp.n < clock + 86400 /\ audience = None
  => /\ (Accepted <=> (Iat.n - 300 <= clock /\ clock <= Exp.n + 300))
     /\ (clock < Iat.n - 300 => result.exc = "Token used too early")
     /\ (clock > Exp.n + 300 /\ clock >= Iat.n - 300
           => result.exc = "Token used too late")

\* A token with iat = now + 300 and exp = now - 300 was accepted.
C4_Witness ==
  /\ pc = "done" /\ SigVerified /\ audience = None
  /\ IsInt(Iat) /\ IsInt(Exp)
  /\ Iat.n = clock + 300 /\ Exp.n = clock - 300
  /\ Accepted

\* C5: with the signature verified and integer iat and exp, verify fails with
\* 'exp field too far in future' exactly when exp >= now + 86400, whatever the
\* too-early and too-late checks would say.
C5_LifetimeCap ==
  pc = "done" /\ SigVerified /\ IsInt(Iat) /\ IsInt(Exp)
  => (result.exc = "exp field too far in future" <=> Exp.n >= clock + 86400)

\* A token with iat = now and exp = now + 86401 was rejected for its lifetime.
C5_Witness ==
  /\ pc = "done" /\ SigVerified /\ IsInt(Iat) /\ IsInt(Exp)
  /\ Iat.n = clock /\ Exp.n = clock + 86401
  /\ result.exc = "exp field too far in future"

\* C6 (as stated): every accepted token has exp - iat <= 86400.
C6_Original ==
  pc = "done" /\ Accepted =>
    Get(result.claims, K_exp).n - Get(result.claims, K_iat).n <= 86400

\* C6 (amended): every accepted token has exp - now < 86400; exp - iat is not
\* bounded.
C6_LifetimeFromNow ==
  pc = "done" /\ Accepted => Get(result.claims, K_exp).n - clock < 86400

\* A token issued long ago was accepted with exp - iat above 86400.
C6_Witness ==
  /\ pc = "done" /\ Accepted
  /\ Get(result.claims, K_exp).n - Get(result.claims, K_iat).n > 86400

\* C7: a valid token with one bit of its payload or signature segment inverted
\* is not accepted.  (The claim says more: that it fails with 'Invalid token
\* signature' and no other error.)
C7_TamperDetected ==
  pc = "done" /\ OriginalValid /\ BitFlipped => ~Accepted

\* C8: a structurally malformed token fails with one of the malformed-token
\* errors.
C8_MalformedRejected ==
  pc = "done" /\ Malformed => result.exc \in MalformedTokenErrors

\* C9: for a token that passes the signature and time checks, verify without
\* an audience returns the claims whatever aud is; with an audience it
\* succeeds when aud equals it and fails with 'Wrong recipient' when aud is
\* present and differs.
C9_Audience ==
  pc = "done" /\ SigVerified /\ TimesPass
  => /\ (audience = None => result = Return(Claims))
     /\ (audience # None /\ Aud = audience => result = Return(Claims))
     /\ (audience # None /\ Aud # None /\ Aud # audience
           => result.exc = "Wrong recipient")

\* A token with aud = "svc-x" was refused for the audience "svc-y".
C9_Witness ==
  /\ pc = "done" /\ SigVerified /\ TimesPass
  /\ Aud = SvcX /\ audience = SvcY
  /\ result.exc = "Wrong recipient"

\* C10: with the signature verified, verify fails with a missing-claim error
\* whenever iat or exp is not an integer, and with 'No aud field in token' when
\* an audience is requested of a token without aud; no error outside the
\* AppIdentityError messages leaves the call.
C10_RequiredClaims ==
  pc = "done" /\ SigVerified
  => /\ (~IsInt(Iat) \/ ~IsInt(Exp) => result.exc \in MissingClaimErrors)
     /\ (TimesPass /\ audience # None /\ Aud = None
           => result.exc = "No aud field in token")
     /\ result.exc \in AppIdentityErrors \cup {"none"}

====
